---- MODULE Spec2Model ----
(***************************************************************************)
(* Model of the resistor-network synthesis engine of EPPP                  *)
(* (src/eppp/circuit.py: make_resistance and _make_resistance_helper).     *)
(*                                                                         *)
(* Resistance values are exact rationals <<numerator, denominator>> in     *)
(* lowest terms with a positive denominator.  The arithmetic of a call is  *)
(* exact (the numbers are Fractions) or, when float_mode holds, that of    *)
(* floats with a mantissa of MantissaBits bits, rounded after every        *)
(* operation.  A polish expression is a sequence of elements [op, val]: op *)
(* is "val" for a resistance and "_add" or "parallel_impedance" for the    *)
(* two operators.                                                          *)
(*                                                                         *)
(* The recursion of _make_resistance_helper is modelled by an explicit     *)
(* call stack of frames; one action models the code between two call       *)
(* boundaries (a call, or a return, with the code that follows it up to    *)
(* the next call or return).                                               *)
(*                                                                         *)
(* The module has more specifications, each with its own Init and Next     *)
(* over the same variables: SpecTwoCalls (a second call of                 *)
(* make_resistance), SpecFloat (make_resistance on floats and on           *)
(* Fractions), SpecDeep (make_resistance with four components),            *)
(* SpecCatalogue and SpecCatalogueList (get_avail_vals), SpecCommand (the  *)
(* make-resistance command of src/eppp/util.py), SpecTree (ExprTree),      *)
(* SpecEval (_polish_eval and ExprTree.evaluate), SpecParallel             *)
(* (parallel_impedance) and SpecLog (src/eppp/log.py).                     *)
(***************************************************************************)
EXTENDS Integers, Sequences, FiniteSets, TLC

\* ------------------------------------------------------------------ bounds
\* Largest resistance value that may occur in a catalogue.
MaxVal == 5
\* Largest number of values in a catalogue.
MaxCatLen == 2
\* Targets are the rationals n/TargetDen with n in -1..MaxTargetNum.
MaxTargetNum == 11
TargetDen == 5
\* Cap on the outer loop of make_resistance when max_num_comps is unbounded.
MaxIter == 3
\* Largest num_comps_full_search and num_comps_full_search_lag.
MaxFullSearch == 2
MaxLag == 1

\* --------------------------------------------------------------- rationals
Abs(x) == IF x < 0 THEN -x ELSE x

RECURSIVE GCD(_, _)
GCD(a, b) == IF b = 0 THEN a ELSE GCD(b, a % b)

\* The rational n/d (d # 0) in lowest terms with a positive denominator.
Norm(n, d) ==
    LET g == GCD(Abs(n), Abs(d))
        s == IF d < 0 THEN -1 ELSE 1
    IN  <<(s * n) \div g, (s * d) \div g>>

RAdd(a, b) == Norm(a[1] * b[2] + b[1] * a[2], a[2] * b[2])
RSub(a, b) == Norm(a[1] * b[2] - b[1] * a[2], a[2] * b[2])
RMul(a, b) == Norm(a[1] * b[1], a[2] * b[2])
RDiv(a, b) == Norm(a[1] * b[2], a[2] * b[1])
RLess(a, b) == a[1] * b[2] < b[1] * a[2]
RLeq(a, b) == a[1] * b[2] <= b[1] * a[2]
RAbs(a) == <<Abs(a[1]), a[2]>>
Zero == <<0, 1>>

\* ------------------------------------------------------------------ floats
\* Python floats, modelled with a mantissa of MantissaBits bits: the result of
\* every arithmetic operation is rounded to the nearest number m * 2^e with
\* m < 2^MantissaBits, halves to the even m.
MantissaBits == 4

RECURSIVE Pow2(_)
Pow2(e) == IF e = 0 THEN 1 ELSE 2 * Pow2(e - 1)

\* The exponent e with 2^(MantissaBits-1) <= (n/d) / 2^e < 2^MantissaBits, for
\* positive n and d; the search starts at e.
RECURSIVE FloatExponent(_, _, _)
FloatExponent(n, d, e) ==
    IF (IF e < 0 THEN n * 2^(-e) ELSE n)
           >= 2^MantissaBits * (IF e > 0 THEN d * 2^e ELSE d)
    THEN FloatExponent(n, d, e + 1)
    ELSE IF (IF e < 0 THEN n * 2^(-e) ELSE n)
                < 2^(MantissaBits - 1) * (IF e > 0 THEN d * 2^e ELSE d)
    THEN FloatExponent(n, d, e - 1)
    ELSE e

\* num/den rounded to the nearest integer, halves to the even one.
RoundHalfEven(num, den) ==
    IF 2 * (num % den) > den
           \/ (2 * (num % den) = den /\ (num \div den) % 2 = 1)
    THEN num \div den + 1
    ELSE num \div den

\* The positive rational n/d rounded to a mantissa at the exponent e.
RoundAt(n, d, e) ==
    IF e >= 0 THEN <<RoundHalfEven(n, d * 2^e) * 2^e, 1>>
    ELSE Norm(RoundHalfEven(n * 2^(-e), d), 2^(-e))

\* The float nearest to the rational q.
Float(q) ==
    IF q[1] = 0 THEN q
    ELSE IF q[1] < 0
    THEN <<-RoundAt(-q[1], q[2], FloatExponent(-q[1], q[2], 0))[1],
           RoundAt(-q[1], q[2], FloatExponent(-q[1], q[2], 0))[2]>>
    ELSE RoundAt(q[1], q[2], FloatExponent(q[1], q[2], 0))

\* Python's None for a value, and math.inf for best_error.
NoneVal == <<0, 0>>
Inf == <<1, 0>>
\* Python's None for an expression.
NoneExpr == << >>

\* ErrLess with <= for <: on equal errors the later candidate wins.
ErrLess_OrEqual(e, best_error) == best_error = Inf \/ RLeq(e, best_error)

\* error < best_error, where best_error may be inf
ErrLess(e, best_error) == best_error = Inf \/ RLess(e, best_error)

\* ------------------------------------------------------------- expressions
Leaf(v) == [op |-> "val", val |-> v]
_add == [op |-> "_add", val |-> Zero]
parallel_impedance == [op |-> "parallel_impedance", val |-> Zero]

IsOp(el) == el.op # "val"

\* Applying an operator element to two values.
Apply(el, a, b) ==
    IF el.op = "_add" THEN RAdd(a, b)
    ELSE IF a[1] = 0 \/ b[1] = 0 THEN Zero
    ELSE RDiv(RMul(a, b), RAdd(a, b))

\* Number of components of a polish expression: len(expr) // 2 + 1.
NumLeaves(expr) == Len(expr) \div 2 + 1

\* _polish_eval: scan from the right; a value is pushed on the stack, an
\* operator pops two values and puts their combination back on the expression.
RECURSIVE PolishEvalStep(_, _)
PolishEvalStep(expr, stack) ==
    IF expr = << >> THEN stack
    ELSE LET el == expr[Len(expr)]
             rest == SubSeq(expr, 1, Len(expr) - 1)
         IN  IF IsOp(el)
             THEN PolishEvalStep(
                      Append(rest, Leaf(Apply(el, stack[Len(stack)], stack[Len(stack) - 1]))),
                      SubSeq(stack, 1, Len(stack) - 2))
             ELSE PolishEvalStep(rest, Append(stack, el.val))

\* The value of a complete polish expression.
PolishEval(expr) == PolishEvalStep(expr, << >>)[1]

\* ------------------------------------------------------------ sorted lists
\* bisect.bisect (= bisect_right): the number of elements <= x of a sorted list.
Bisect(keys, x) == Cardinality({i \in 1..Len(keys) : RLeq(keys[i], x)})

\* bisect.insort (= insort_right).
Insort(keys, x) ==
    LET i == Bisect(keys, x)
    IN  SubSeq(keys, 1, i) \o <<x>> \o SubSeq(keys, i + 1, Len(keys))

\* ------------------------------------------------------------------- state
VARIABLES
    target,                     \* make_resistance argument
    max_num_comps,              \* make_resistance argument (<= 0: unbounded)
    tolerance,                  \* make_resistance argument
    avail_vals,                 \* make_resistance argument: the catalogue
    num_comps_full_search,      \* make_resistance argument
    num_comps_full_search_lag,  \* make_resistance argument
    results,                    \* the memo: value -> polish expression
    results_keyss,              \* per component count, the sorted keys of the memo
    num_comps,                  \* the outer loop variable (0 before the loop)
    res,                        \* result of the last outermost helper call
    stack,                      \* call stack of _make_resistance_helper
    exc,                        \* exception that ended the call ("" if none)
    pc,                         \* make_resistance: "seed", "loop", "helper", "done",
                                \* "raised"; the other operations have their own
    first,                      \* result of an earlier call with the same arguments
    topology,                   \* make-resistance command: the --topology option
    series,                     \* get_avail_vals argument
    min_val,                    \* get_avail_vals argument
    max_val,                    \* get_avail_vals argument
    basic_avail_vals,           \* get_avail_vals: the one-decade list of the series
    polish_expr,                \* ExprTree argument: a prefix expression
    tree,                       \* an ExprTree object
    float_mode,                 \* the numbers are Python floats (else Fractions)
    par_vals,                   \* parallel_impedance: the arguments *vals
    impedance,                  \* parallel_impedance: the value returned
    polish_result,              \* _polish_eval: the list returned
    tree_value,                 \* ExprTree.evaluate: the value returned
    _log_level,                 \* log.py: the module global _log_level
    log_calls,                  \* the arguments of the set_log_level calls so far
    log_result,                 \* get_log_level: the value returned
    caller_list,                \* the list object a caller passed as series
    first_avail_vals            \* the catalogue returned by an earlier call with it

args == <<target, max_num_comps, tolerance, avail_vals,
          num_comps_full_search, num_comps_full_search_lag>>
\* The state of the command line, of get_avail_vals and of ExprTree, which
\* make_resistance does not touch.
extras == <<float_mode, par_vals, impedance, polish_result, tree_value,
            _log_level, log_calls, log_result, caller_list, first_avail_vals>>
others == <<topology, series, min_val, max_val, basic_avail_vals, polish_expr, tree,
            extras>>
vars == <<target, max_num_comps, tolerance, avail_vals,
          num_comps_full_search, num_comps_full_search_lag,
          results, results_keyss, num_comps, res, stack, exc, pc, first,
          topology, series, min_val, max_val, basic_avail_vals, polish_expr, tree,
          float_mode, par_vals, impedance, polish_result, tree_value,
          _log_level, log_calls, log_result, caller_list, first_avail_vals>>

\* The arithmetic of make_resistance on the numbers it is given: exact on
\* Fractions, rounded after every operation on floats.
Fl(x) == IF float_mode THEN Float(x) ELSE x
FAdd(a, b) == Fl(RAdd(a, b))
FSub(a, b) == Fl(RSub(a, b))
FMul(a, b) == Fl(RMul(a, b))
FDiv(a, b) == Fl(RDiv(a, b))

\* ------------------------------------------------------------------ inputs
Targets == {Norm(n, TargetDen) : n \in -1..MaxTargetNum}
Tolerances == {Zero, <<1, 7>>}

\* Catalogues: strictly ascending lists of at most MaxCatLen positive values.
RECURSIVE AscendingFrom(_, _)
AscendingFrom(lo, len) ==
    IF len = 0 THEN {<< >>}
    ELSE UNION {{<<<<v, 1>>>> \o t : t \in AscendingFrom(v + 1, len - 1)}
                : v \in lo..MaxVal}
Catalogues == UNION {AscendingFrom(1, len) : len \in 0..MaxCatLen}

NoRes == [expr |-> NoneExpr, val |-> NoneVal]

\* The command line, get_avail_vals and ExprTree before they are used.
NoTree == [operator |-> "None", operands |-> << >>]
NoCommand == topology = "mixed"
NoSeries ==
    /\ series = ""
    /\ min_val = Zero
    /\ max_val = Zero
    /\ basic_avail_vals = << >>
NoExprTree == polish_expr = << >> /\ tree = NoTree
\* parallel_impedance, _polish_eval, evaluate and the log module before they
\* are used, and no list passed by a caller.
NoParallel == par_vals = << >> /\ impedance = NoneVal
NoEval == polish_result = << >> /\ tree_value = NoneVal
NoLog == _log_level = 0 /\ log_calls = << >> /\ log_result = -1
NoList == caller_list = << >> /\ first_avail_vals = <<NoneVal>>
NoExtras == NoParallel /\ NoEval /\ NoLog /\ NoList

Init ==
    /\ NoCommand
    /\ NoSeries
    /\ NoExprTree
    /\ NoExtras
    /\ float_mode = FALSE
    /\ target \in Targets
    /\ max_num_comps \in {-1} \cup 1..MaxIter
    /\ tolerance \in Tolerances
    /\ avail_vals \in Catalogues
    /\ num_comps_full_search \in 0..MaxFullSearch
    /\ num_comps_full_search_lag \in 0..MaxLag
    /\ results = << >>
    /\ results_keyss = << >>
    /\ num_comps = 0
    /\ res = NoRes
    /\ stack = << >>
    /\ exc = ""
    /\ pc = "seed"
    /\ first = NoRes

\* ------------------------------------------------------ make_resistance
RECURSIVE SortedKeys(_)
SortedKeys(S) ==
    IF S = {} THEN << >>
    ELSE LET m == CHOOSE x \in S : \A y \in S : RLeq(x, y)
         IN  <<m>> \o SortedKeys(S \ {m})

Range(s) == {s[i] : i \in 1..Len(s)}

\* Results for single component: results[val] = [val] for each catalogue
\* value, and results_keyss = [sorted(results.keys())].
Seed ==
    /\ pc = "seed"
    /\ results' = [v \in Range(avail_vals) |-> <<Leaf(v)>>]
    /\ results_keyss' = <<SortedKeys(Range(avail_vals))>>
    /\ pc' = "loop"
    /\ UNCHANGED <<args, others, num_comps, res, stack, exc, first>>

\* Storing one full-search candidate: insert only when the value is new.
Store(mem, level, new_val, new_expr) ==
    IF new_val \in DOMAIN mem.results THEN mem
    ELSE [results |-> (new_val :> new_expr) @@ mem.results,
          keyss |-> [mem.keyss EXCEPT ![level] = Insort(@, new_val)]]

\* The inner loop of the full search, over the keys of level 'level - 1'.
RECURSIVE FullSearchOld(_, _, _, _, _)
FullSearchOld(mem, level, val, old_keys, j) ==
    IF j > Len(old_keys) THEN mem
    ELSE LET old_val == old_keys[j]
             expr == mem.results[old_val]
             m1 == Store(mem, level, FAdd(val, old_val), <<_add, Leaf(val)>> \o expr)
             m2 == Store(m1, level, FDiv(FMul(val, old_val), FAdd(val, old_val)),
                         <<parallel_impedance, Leaf(val)>> \o expr)
         IN  FullSearchOld(m2, level, val, old_keys, j + 1)

\* The outer loop of the full search, over the catalogue.
RECURSIVE FullSearch(_, _, _)
FullSearch(mem, level, i) ==
    IF i > Len(avail_vals) THEN mem
    ELSE FullSearch(FullSearchOld(mem, level, avail_vals[i], mem.keyss[level - 1], 1),
                    level, i + 1)

Min(a, b) == IF a < b THEN a ELSE b
Max(a, b) == IF a > b THEN a ELSE b

\* ------------------------------------------------- _make_resistance_helper
\* Better with the comparison reversed: a memo key replaces the best candidate
\* when it is farther from the target.
Better_Flipped(mem, best, val, t) ==
    IF best.best_error = Inf \/ RLess(best.best_error, RAbs(FSub(t, val)))
    THEN [best_error |-> RAbs(FSub(t, val)), best_val |-> val,
          best_expr |-> mem.results[val]]
    ELSE best

\* "Update if better": a memo key replaces the best candidate only when it
\* is strictly closer to the target.
Better(mem, best, val, t) ==
    IF ErrLess(RAbs(FSub(t, val)), best.best_error)
    THEN [best_error |-> RAbs(FSub(t, val)), best_val |-> val,
          best_expr |-> mem.results[val]]
    ELSE best

\* ProbeLevel without the candidate at index - 1.
ProbeLevel_AboveOnly(mem, best, results_keys, t) ==
    LET index == Bisect(results_keys, t)
    IN  IF index < Len(results_keys)
        THEN Better(mem, best, results_keys[index + 1], t) ELSE best

\* The probe of one level: the keys at positions index and index - 1 of the
\* level's sorted list; an IndexError skips the candidate, and Python's
\* index -1 is the last element of a non-empty list.
ProbeLevel(mem, best, results_keys, t) ==
    LET index == Bisect(results_keys, t)
        b1 == IF index < Len(results_keys)
              THEN Better(mem, best, results_keys[index + 1], t) ELSE best
    IN  IF index >= 1 THEN Better(mem, b1, results_keys[index], t)
        ELSE IF Len(results_keys) > 0
             THEN Better(mem, b1, results_keys[Len(results_keys)], t)
             ELSE b1

\* The return test at the end of the body of the probe loop.
ProbeReturns(n, fs) == n = 1 \/ n <= fs

\* ProbeLevels with the slice forgotten: every level of the memo is probed.
ProbeLevels_NoSlice(keyss, n) == Len(keyss)

\* The number of levels in the slice results_keyss[:num_comps].
ProbeLevels(keyss, n) == Min(n, Len(keyss))

\* The probe loop over results_keyss[:num_comps], from level k on; the
\* return statement is inside the loop body.
RECURSIVE Probe(_, _, _, _, _, _)
Probe(mem, best, k, t, n, fs) ==
    IF k > ProbeLevels(mem.keyss, n) THEN [best |-> best, returned |-> FALSE]
    ELSE LET b == ProbeLevel(mem, best, mem.keyss[k], t)
         IN  IF ProbeReturns(n, fs) THEN [best |-> b, returned |-> TRUE]
             ELSE Probe(mem, b, k + 1, t, n, fs)

\* The frame of a call of the helper, from its entry to the end of the probe
\* loop: either it returns from inside the loop or it goes on to the
\* extension loop.
NewFrame(mem, t, n, fs) ==
    LET p == Probe(mem, [best_error |-> Inf, best_val |-> NoneVal, best_expr |-> NoneExpr],
                   1, t, n, fs)
    IN  [target |-> t, num_comps |-> n, num_comps_fully_searched |-> fs,
         best_error |-> p.best.best_error, best_val |-> p.best.best_val,
         best_expr |-> p.best.best_expr,
         phase |-> IF p.returned THEN "return" ELSE "extend", i |-> 1]

Top == stack[Len(stack)]

\* The sub-target of the recursive call for catalogue value val.
Needed(t, val) ==
    IF RLess(val, t) THEN FSub(t, val)
    ELSE FDiv(FMul(val, t), FSub(val, t))

\* The extension loop takes the next catalogue value and calls the helper
\* recursively; val = target makes the division raise ZeroDivisionError.
HelperCall ==
    /\ pc = "helper"
    /\ Top.phase = "extend"
    /\ Top.i <= Len(avail_vals)
    /\ LET f == Top
           val == avail_vals[f.i]
       IN  IF val = f.target
           THEN /\ pc' = "raised"
                /\ exc' = "ZeroDivisionError"
                /\ stack' = << >>
           ELSE /\ stack' = Append([stack EXCEPT ![Len(stack)].phase = "wait"],
                                   NewFrame([results |-> results, keyss |-> results_keyss],
                                            Needed(f.target, val), f.num_comps - 1,
                                            f.num_comps_fully_searched))
                /\ UNCHANGED <<pc, exc>>
    /\ UNCHANGED <<args, others, results, results_keyss, num_comps, res, first>>

\* The top frame has reached a return statement.
Returning(f) ==
    \/ f.phase = "return"
    \/ f.phase = "extend" /\ f.i > Len(avail_vals)

\* Combine as if every extension were a series extension.
Combine_AlwaysAdd(op, val, rec_val) == FAdd(rec_val, val)

\* The value of the network combining val with the recursive result.
Combine(op, val, rec_val) ==
    IF op = _add THEN FAdd(rec_val, val)
    ELSE FDiv(FMul(rec_val, val), FAdd(rec_val, val))

\* The operator of the extension by val for sub-target t.
ExtOp(t, val) == IF RLess(val, t) THEN _add ELSE parallel_impedance

\* A recursive call returns: the caller builds the new expression, saves it
\* if its value is new, and updates its best candidate if strictly better.
HelperReturn ==
    /\ pc = "helper"
    /\ Len(stack) >= 2
    /\ Returning(Top)
    /\ LET f == stack[Len(stack) - 1]
           val == avail_vals[f.i]
           op == ExtOp(f.target, val)
           new_expr == <<op, Leaf(val)>> \o Top.best_expr
           new_val == Combine(op, val, Top.best_val)
           error == RAbs(FSub(f.target, new_val))
           g == IF ErrLess(error, f.best_error)
                THEN [f EXCEPT !.best_error = error, !.best_val = new_val,
                               !.best_expr = new_expr]
                ELSE f
       IN  /\ IF new_val \in DOMAIN results
              THEN UNCHANGED <<results, results_keyss>>
              ELSE /\ results' = (new_val :> new_expr) @@ results
                   /\ results_keyss' = [results_keyss EXCEPT ![NumLeaves(new_expr)] =
                                            Insort(@, new_val)]
           /\ stack' = Append(SubSeq(stack, 1, Len(stack) - 2),
                              [g EXCEPT !.phase = "extend", !.i = f.i + 1])
    /\ UNCHANGED <<args, others, num_comps, res, exc, pc, first>>

\* RangeHasNext for range(1, max_num_comps) instead of range(1, max_num_comps + 1).
RangeHasNext_OffByOne(n) == n + 1 < max_num_comps

\* The range of the outer loop has a value after n.
RangeHasNext(n) == n < max_num_comps

\* GoodEnough without abs(): a result above the target is always accepted.
GoodEnough_NoAbs(val) == RLeq(FSub(target, val), FMul(tolerance, target))

\* "Break if good enough".
GoodEnough(val) == RLeq(RAbs(FSub(target, val)), FMul(tolerance, target))

\* The outermost call returns to make_resistance: the loop breaks when the
\* result is good enough and ends when the range is exhausted; abs(target -
\* None) raises TypeError.
LoopReturn ==
    /\ pc = "helper"
    /\ Len(stack) = 1
    /\ Returning(Top)
    /\ res' = [expr |-> Top.best_expr, val |-> Top.best_val]
    /\ stack' = << >>
    /\ IF Top.best_val = NoneVal
       THEN pc' = "raised" /\ exc' = "TypeError"
       ELSE /\ pc' = IF GoodEnough(Top.best_val) THEN "done"
                     ELSE IF max_num_comps > 0 /\ ~RangeHasNext(num_comps) THEN "done"
                     ELSE "loop"
            /\ UNCHANGED exc
    /\ UNCHANGED <<args, others, results, results_keyss, num_comps, first>>

\* One iteration of the outer loop up to the call of the helper.
LoopStep ==
    /\ pc = "loop"
    /\ IF max_num_comps <= 0 THEN num_comps < MaxIter ELSE RangeHasNext(num_comps)
    /\ LET n == num_comps + 1
           keyss1 == IF n > 1 THEN Append(results_keyss, << >>) ELSE results_keyss
           fully == n - num_comps_full_search_lag
           mem0 == [results |-> results, keyss |-> keyss1]
           mem == IF 1 < fully /\ fully <= num_comps_full_search
                  THEN FullSearch(mem0, fully, 1) ELSE mem0
           fs == Max(Min(fully, num_comps_full_search), 1)
       IN  /\ num_comps' = n
           /\ results' = mem.results
           /\ results_keyss' = mem.keyss
           /\ stack' = <<NewFrame(mem, target, n, fs)>>
    /\ pc' = "helper"
    /\ UNCHANGED <<args, others, res, exc, first>>

Next ==
    \/ Seed
    \/ LoopStep
    \/ HelperCall
    \/ HelperReturn
    \/ LoopReturn

Spec == Init /\ [][Next]_vars

\* A second call of make_resistance with the same target, bound, tolerance
\* and catalogue, and with no full search (num_comps_full_search = 0); the
\* memo is local to a call.
CallAgain ==
    /\ pc = "done"
    /\ first = NoRes
    /\ first' = res
    /\ num_comps_full_search' = 0
    /\ num_comps_full_search_lag' = 0
    /\ results' = << >>
    /\ results_keyss' = << >>
    /\ num_comps' = 0
    /\ res' = NoRes
    /\ pc' = "seed"
    /\ UNCHANGED <<target, max_num_comps, tolerance, avail_vals, stack, exc, others>>

NextTwoCalls == Next \/ CallAgain

SpecTwoCalls == Init /\ [][NextTwoCalls]_vars

\* ------------------------------------------------------------- properties
Positive(t) == RLess(Zero, t)

\* A call with a positive target and a non-empty catalogue.
ValidCall == Positive(target) /\ avail_vals # << >>

\* The number of resistances in a polish expression.
LeafCount(expr) == Cardinality({i \in 1..Len(expr) : expr[i].op = "val"})

AbsErr(v) == RAbs(RSub(v, target))
WithinTolerance(v) == RLeq(AbsErr(v), RMul(tolerance, target))

\* The value of the network that make_resistance returns.
ResultValue == PolishEval(res.expr)

RPar(a, b) == RDiv(RMul(a, b), RAdd(a, b))

\* The values of all series/parallel networks of exactly k catalogue values.
RECURSIVE NetValues(_)
NetValues(k) ==
    IF k = 1 THEN Range(avail_vals)
    ELSE UNION {UNION {{RAdd(a, b), RPar(a, b)} : a \in NetValues(i), b \in NetValues(k - i)}
                : i \in 1..(k - 1)}

NetValuesUpTo(n) == UNION {NetValues(k) : k \in 1..n}

C2_LeavesWithinBudget ==
    /\ \A k \in 1..Len(stack) :
           Returning(stack[k]) => LeafCount(stack[k].best_expr) <= stack[k].num_comps
    /\ (pc = "done" /\ max_num_comps >= 1) => LeafCount(res.expr) <= max_num_comps

\* A recursive call with budget 2 that returns a two-component expression.
C2_Witness ==
    /\ pc = "helper" /\ Len(stack) = 2
    /\ Returning(Top) /\ Top.num_comps = 2 /\ LeafCount(Top.best_expr) = 2

\* C3 (as claimed): if some network of at most max_num_comps catalogue values
\* is within the tolerance, the returned network is within the tolerance.
C3_ToleranceMetWhenPossible ==
    (/\ pc = "done" /\ ValidCall /\ max_num_comps >= 1
     /\ \E v \in NetValuesUpTo(max_num_comps) : WithinTolerance(v))
        => WithinTolerance(ResultValue)

C5_MonotoneImprovement ==
    [][(pc = "helper" /\ pc' \in {"loop", "done"} /\ num_comps >= 2)
          => RLeq(AbsErr(PolishEval(res'.expr)), AbsErr(PolishEval(res.expr)))]_vars

\* The third iteration has returned a three-component network.
C5_Witness ==
    /\ pc \in {"loop", "done"} /\ num_comps = 3 /\ LeafCount(res.expr) = 3

\* C6 (as claimed): with tolerance 0 and max_num_comps >= 2, a target that is
\* exactly a + b or a*b/(a+b) for catalogue values a, b is returned exactly,
\* with at most 2 resistances.
C6_ExactPairFound ==
    (/\ pc = "done" /\ ValidCall /\ tolerance = Zero /\ max_num_comps >= 2
     /\ target \in NetValues(2))
        => (ResultValue = target /\ LeafCount(res.expr) <= 2)

\* C7 (as claimed): with max_num_comps = 2 and tolerance 0 the returned
\* network minimises the absolute error over all networks of one or two
\* catalogue values.
C7_BestOfTwo ==
    (pc = "done" /\ ValidCall /\ tolerance = Zero /\ max_num_comps = 2)
        => \A v \in NetValuesUpTo(2) : RLeq(AbsErr(ResultValue), AbsErr(v))

\* C8: with max_num_comps = 1 the result is a single catalogue value with the
\* smallest absolute error over the whole catalogue.
C8_NearestSingle ==
    (pc = "done" /\ avail_vals # << >> /\ max_num_comps = 1)
        => /\ Len(res.expr) = 1
           /\ res.expr[1].op = "val"
           /\ res.expr[1].val \in Range(avail_vals)
           /\ \A w \in Range(avail_vals) : RLeq(AbsErr(res.expr[1].val), AbsErr(w))

\* A one-component call with a target strictly between two catalogue values.
C8_Witness ==
    /\ pc = "done" /\ max_num_comps = 1 /\ Len(avail_vals) = 2
    /\ RLess(avail_vals[1], target) /\ RLess(target, avail_vals[2])

\* C9 (as claimed): the full-search parameters do not change the result: a
\* call returns the same network as the call with the same target, bound,
\* tolerance and catalogue that does no full search.
C9_FullSearchIrrelevant ==
    (pc = "done" /\ ValidCall /\ first # NoRes) => res = first

\* C10 (as claimed): a call with a zero or negative target ends with an error
\* before any search step: no loop iteration starts, no helper call is made
\* and the call does not return a network.
C10_InvalidTargetRejected ==
    (~Positive(target) /\ avail_vals # << >>)
        => (num_comps = 0 /\ stack = << >> /\ pc # "done")

\* ------------------------------------------------------- get_avail_vals
\* Band limits are the values m * 10^e / 10 with m a band mantissa and e in
\* 0..MaxBandExp.
MaxBandExp == 2

\* Longest 2-digit series
E24 == <<
    10, 11, 12, 13, 15, 16, 18, 20, 22, 24, 27, 30,
    33, 36, 39, 43, 47, 51, 56, 62, 68, 75, 82, 91>>

\* Longest 3-digit series
E192 == <<
    100, 101, 102, 104, 105, 106, 107, 109, 110, 111, 113, 114,
    115, 117, 118, 120, 121, 123, 124, 126, 127, 129, 130, 132,
    133, 135, 137, 138, 140, 142, 143, 145, 147, 149, 150, 152,
    154, 156, 158, 160, 162, 164, 165, 167, 169, 172, 174, 176,
    178, 180, 182, 184, 187, 189, 191, 193, 196, 198, 200, 203,
    205, 208, 210, 213, 215, 218, 221, 223, 226, 229, 232, 234,
    237, 240, 243, 246, 249, 252, 255, 258, 261, 264, 267, 271,
    274, 277, 280, 284, 287, 291, 294, 297, 301, 305, 309, 312,
    316, 320, 324, 328, 332, 336, 340, 344, 348, 352, 357, 361,
    365, 370, 374, 379, 383, 388, 392, 397, 402, 407, 412, 417,
    422, 427, 432, 437, 442, 448, 453, 459, 464, 470, 475, 481,
    487, 493, 499, 505, 511, 517, 523, 530, 536, 542, 549, 556,
    562, 569, 576, 583, 590, 597, 604, 612, 619, 626, 634, 642,
    649, 657, 665, 673, 681, 690, 698, 706, 715, 723, 732, 741,
    750, 759, 768, 777, 787, 796, 806, 816, 825, 835, 845, 856,
    866, 876, 887, 898, 909, 920, 931, 942, 953, 965, 976, 988>>

\* _derive_series: the elements at the indices (from 0) divisible by
\* skip = len(orig_series) / series_num.
DeriveSeries_FromOne(series_num, orig_series) ==
    LET skip == Len(orig_series) \div series_num
        keep == {i \in 0..(Len(orig_series) - 1) : i % skip = 1 % skip}
    IN  [j \in 1..Cardinality(keep) |->
            orig_series[1 + CHOOSE i \in keep : Cardinality({h \in keep : h < i}) = j - 1]]

DeriveSeries(series_num, orig_series) ==
    LET skip == Len(orig_series) \div series_num
        keep == {i \in 0..(Len(orig_series) - 1) : i % skip = 0}
    IN  [j \in 1..Cardinality(keep) |->
            orig_series[1 + CHOOSE i \in keep : Cardinality({h \in keep : h < i}) = j - 1]]

\* Dictionary with common series
avail_vals_dict ==
    [E24  |-> E24,
     E192 |-> E192,
     E3   |-> DeriveSeries(3, E24),
     E6   |-> DeriveSeries(6, E24),
     E12  |-> DeriveSeries(12, E24),
     E48  |-> DeriveSeries(48, E192),
     E96  |-> DeriveSeries(96, E192)]

SeriesNames == DOMAIN avail_vals_dict

RECURSIVE Pow10(_)
Pow10(e) == IF e = 0 THEN 1 ELSE 10 * Pow10(e - 1)

BandMantissas == {10, 25, 47}
BandVals == {Norm(m * Pow10(e), 10) : m \in BandMantissas, e \in 0..MaxBandExp}

\* list.reverse()
Reverse(s) == [i \in 1..Len(s) |-> s[Len(s) + 1 - i]]

\* Append higher order series
RECURSIVE AppendHigher(_, _, _)
AppendHigher(vals, basic, multiplier) ==
    IF RLeq(vals[Len(vals)], max_val)
    THEN AppendHigher(vals \o [i \in 1..Len(basic) |-> RMul(basic[i], <<multiplier, 1>>)],
                      basic, multiplier * 10)
    ELSE vals

\* Append lower order series (to the reversed list, from the reversed basic
\* list)
RECURSIVE AppendLower_NotReversed(_, _, _)
AppendLower_NotReversed(vals, basic, divider) ==
    IF RLeq(min_val, vals[Len(vals)])
    THEN AppendLower_NotReversed(
             vals \o [i \in 1..Len(basic) |-> RDiv(basic[Len(basic) + 1 - i], <<divider, 1>>)],
             basic, divider * 10)
    ELSE vals

RECURSIVE AppendLower(_, _, _)
AppendLower(vals, basic, divider) ==
    IF RLeq(min_val, vals[Len(vals)])
    THEN AppendLower(vals \o [i \in 1..Len(basic) |-> RDiv(basic[i], <<divider, 1>>)],
                     basic, divider * 10)
    ELSE vals

\* Filter out too high or too low values
InBand(x) == RLeq(x, max_val) /\ RLeq(min_val, x)

\* get_avail_vals up to the copy of the one-decade list of the series: a
\* series given by name is looked up in the local table, a series given as a
\* list is used as it is (basic_avail_vals is then the caller's list object).
GetSeries ==
    /\ pc = "series"
    /\ basic_avail_vals' = IF series = "list" THEN caller_list
                           ELSE [i \in 1..Len(avail_vals_dict[series]) |->
                                    <<avail_vals_dict[series][i], 1>>]
    /\ avail_vals' = basic_avail_vals'
    /\ pc' = "band"
    /\ UNCHANGED <<target, max_num_comps, tolerance, num_comps_full_search,
                   num_comps_full_search_lag, results, results_keyss, num_comps,
                   res, stack, exc, first, topology, series, min_val, max_val,
                   polish_expr, tree, extras>>

\* The rest of get_avail_vals: the decades above and below, the filter and
\* the return (resistors: the values are returned as they are).
GetBand ==
    /\ pc = "band"
    /\ LET higher == AppendHigher(avail_vals, basic_avail_vals, 10)
           lower == AppendLower(Reverse(higher), Reverse(basic_avail_vals), 10)
       IN  /\ basic_avail_vals' = Reverse(basic_avail_vals)
           /\ caller_list' = IF series = "list" THEN Reverse(basic_avail_vals)
                             ELSE caller_list
           /\ avail_vals' = SelectSeq(Reverse(lower), InBand)
    /\ pc' = "returned"
    /\ UNCHANGED <<target, max_num_comps, tolerance, num_comps_full_search,
                   num_comps_full_search_lag, results, results_keyss, num_comps,
                   res, stack, exc, first, topology, series, min_val, max_val,
                   polish_expr, tree, float_mode, par_vals, impedance, polish_result,
                   tree_value, _log_level, log_calls, log_result, first_avail_vals>>

\* make_resistance is not running.
NoCall ==
    /\ target = Zero
    /\ max_num_comps = -1
    /\ tolerance = Zero
    /\ avail_vals = << >>
    /\ num_comps_full_search = 0
    /\ num_comps_full_search_lag = 0
    /\ results = << >>
    /\ results_keyss = << >>
    /\ num_comps = 0
    /\ res = NoRes
    /\ stack = << >>
    /\ exc = ""
    /\ first = NoRes

InitCatalogue ==
    /\ NoCall
    /\ NoCommand
    /\ NoExprTree
    /\ NoExtras
    /\ float_mode = FALSE
    /\ series \in SeriesNames
    /\ min_val \in BandVals
    /\ max_val \in BandVals
    /\ basic_avail_vals = << >>
    /\ pc = "series"

NextCatalogue == GetSeries \/ GetBand

SpecCatalogue == InitCatalogue /\ [][NextCatalogue]_vars

\* ---------------------------------------------- properties: get_avail_vals
\* The number of values per decade of a named series.
SeriesNum == [E3 |-> 3, E6 |-> 6, E12 |-> 12, E24 |-> 24, E48 |-> 48, E96 |-> 96,
              E192 |-> 192]

StrictlyAscending(s) == \A i \in 1..(Len(s) - 1) : RLess(s[i], s[i + 1])

\* C11 (as claimed): get_avail_vals called with min_val > max_val fails with
\* an error: it never returns a list.
C11_InvalidRangeRejected ==
    RLess(max_val, min_val) => pc # "returned"

\* C14: for every named series and every band with 0 < min_val <= max_val the
\* returned list is strictly ascending.
C14_StrictlyAscending ==
    (pc = "returned" /\ RLeq(min_val, max_val)) => StrictlyAscending(avail_vals)

\* A returned list that spans more than two decades.
C14_Witness ==
    /\ pc = "returned"
    /\ RLeq(min_val, max_val)
    /\ Len(avail_vals) > 2 * Len(basic_avail_vals)
    /\ RLess(avail_vals[1], <<10, 1>>)
    /\ RLess(<<100, 1>>, avail_vals[Len(avail_vals)])

\* C15: the one-decade list of E3, E6 and E12 is the E24 table at the indices
\* 0, 24/k, 2 * 24/k, ... and that of E48 and E96 the E192 table at stride
\* 192/k: it has k entries, the first being the first table entry.
C15_DerivedByStride ==
    (pc = "band" /\ series \in {"E3", "E6", "E12", "E48", "E96"})
        => LET k == SeriesNum[series]
               table == IF k <= 24 THEN E24 ELSE E192
               stride == Len(table) \div k
           IN  /\ Len(basic_avail_vals) = k
               /\ \A j \in 0..(k - 1) :
                      basic_avail_vals[j + 1] = <<table[j * stride + 1], 1>>

\* The one-decade list of E6 has been derived: 10, 15, 22, 33, 47, 68.
C15_Witness ==
    /\ pc = "band"
    /\ series = "E6"
    /\ basic_avail_vals[2] = <<15, 1>>
    /\ basic_avail_vals[6] = <<68, 1>>

\* C12 (as claimed): a call of make_resistance with a positive target and an
\* empty catalogue ends
\* in a NoSolution outcome reported to the caller, not in an unrelated failure
\* raised from inside the search.
C12_EmptyCatalogueNoSolution ==
    (Positive(target) /\ avail_vals = << >> /\ pc = "raised") => exc = "NoSolution"

\* ------------------------------------------------ make-resistance command
Topologies == {"mixed", "series", "parallel"}

\* The make-resistance command after parsing its options: it calls
\* make_resistance with the keyword argument topology, which the signature of
\* make_resistance does not have, so the call raises TypeError before the
\* body of make_resistance runs (the catalogue built for the call is dropped).
MakeResistanceCommand ==
    /\ pc = "command"
    /\ pc' = "raised"
    /\ exc' = "TypeError"
    /\ UNCHANGED <<args, others, results, results_keyss, num_comps, res, stack, first>>

InitCommand ==
    /\ target \in Targets
    /\ max_num_comps \in {-1} \cup 1..MaxIter
    /\ tolerance \in Tolerances
    /\ topology \in Topologies
    /\ avail_vals = << >>
    /\ num_comps_full_search = 0
    /\ num_comps_full_search_lag = 0
    /\ results = << >>
    /\ results_keyss = << >>
    /\ num_comps = 0
    /\ res = NoRes
    /\ stack = << >>
    /\ exc = ""
    /\ first = NoRes
    /\ NoSeries
    /\ NoExprTree
    /\ NoExtras
    /\ float_mode = FALSE
    /\ pc = "command"

NextCommand == MakeResistanceCommand

SpecCommand == InitCommand /\ [][NextCommand]_vars

\* The operators of a polish expression.
Operators(expr) == {expr[i].op : i \in {j \in 1..Len(expr) : IsOp(expr[j])}}

\* C13 (as claimed): the synthesis accepts a topology restriction: with
\* topology = series the call returns a network without a parallel operator,
\* and with topology = parallel a network without a series operator.
C13_TopologyRespected ==
    /\ (Positive(target) /\ topology = "series" /\ pc \in {"done", "raised"})
           => (pc = "done" /\ "parallel_impedance" \notin Operators(res.expr))
    /\ (Positive(target) /\ topology = "parallel" /\ pc \in {"done", "raised"})
           => (pc = "done" /\ "_add" \notin Operators(res.expr))

\* ----------------------------------------------------------------- ExprTree
\* Prefix expressions given to ExprTree have at most MaxLeaves leaves, with
\* values from LeafVals.
MaxLeaves == 4
LeafVals == {<<1, 1>>, <<2, 1>>}

\* The well-formed prefix expressions with n leaves.
RECURSIVE PolishExprs(_)
PolishExprs(n) ==
    IF n = 1 THEN {<<Leaf(v)>> : v \in LeafVals}
    ELSE UNION {{<<op>> \o l \o r : op \in {_add, parallel_impedance},
                                    l \in PolishExprs(k), r \in PolishExprs(n - k)}
                : k \in 1..(n - 1)}

\* A tree is a record [operator, operands]: a leaf has operator None and its
\* value as the only operand, another node has its operator's name and the
\* list of its operand trees.
LeafTree(el) == [operator |-> "None", operands |-> <<el>>]
_is_leaf(t) == t.operator = "None"

\* _getSize: the number of leaves.
RECURSIVE _getSize(_)
RECURSIVE SizeSum(_)
SizeSum(operands) ==
    IF operands = << >> THEN 0
    ELSE _getSize(Head(operands)) + SizeSum(Tail(operands))
_getSize(t) == IF _is_leaf(t) THEN 1 ELSE SizeSum(t.operands)

\* new_operands.sort(key = lambda x: x._getSize()): a stable sort, operands
\* of the same size keep their order.
RECURSIVE SortBySize_TiesReversed(_)
SortBySize_TiesReversed(operands) ==
    IF operands = << >> THEN << >>
    ELSE LET init == SortBySize_TiesReversed(SubSeq(operands, 1, Len(operands) - 1))
             x == operands[Len(operands)]
             k == Cardinality({i \in 1..Len(init) : _getSize(init[i]) < _getSize(x)})
         IN  SubSeq(init, 1, k) \o <<x>> \o SubSeq(init, k + 1, Len(init))

SortBySize_NotSorted(operands) == operands

RECURSIVE SortBySize(_)
SortBySize(operands) ==
    IF operands = << >> THEN << >>
    ELSE LET init == SortBySize(SubSeq(operands, 1, Len(operands) - 1))
             x == operands[Len(operands)]
             k == Cardinality({i \in 1..Len(init) : _getSize(init[i]) <= _getSize(x)})
         IN  SubSeq(init, 1, k) \o <<x>> \o SubSeq(init, k + 1, Len(init))

\* What a simplified operand adds to new_operands: its own operands if it
\* is of the same type of operator as the node, itself otherwise.
Stolen_Never(operator, operand) == <<operand>>

Stolen_Reversed(operator, operand) ==
    IF ~_is_leaf(operand) /\ operand.operator = operator
    THEN [i \in 1..Len(operand.operands) |->
             operand.operands[Len(operand.operands) + 1 - i]]
    ELSE <<operand>>

Stolen_AnyOperator(operator, operand) ==
    IF ~_is_leaf(operand) THEN operand.operands ELSE <<operand>>

Stolen(operator, operand) ==
    IF ~_is_leaf(operand) /\ operand.operator = operator
    THEN operand.operands
    ELSE <<operand>>

\* ExprTree.simplify
RECURSIVE simplify(_)
RECURSIVE NewOperands(_, _)
NewOperands(operator, operands) ==
    IF operands = << >> THEN << >>
    ELSE Stolen(operator, simplify(Head(operands)))
             \o NewOperands(operator, Tail(operands))
simplify(t) ==
    IF _is_leaf(t) THEN t
    ELSE [operator |-> t.operator,
          operands |-> SortBySize(NewOperands(t.operator, t.operands))]

\* ExprTree.__init__ on the elements of a prefix expression from position
\* pos on: the tree and the position after it.  The two operand trees are
\* constructed with the default do_simplify = True.
RECURSIVE Consume(_, _, _)
Consume(expr, pos, do_simplify) ==
    LET el == expr[pos]
    IN  IF IsOp(el)
        THEN LET left == Consume(expr, pos + 1, TRUE)
                 right == Consume(expr, left.next, TRUE)
                 node == [operator |-> el.op,
                          operands |-> <<left.tree, right.tree>>]
             IN  [tree |-> IF do_simplify THEN simplify(node) ELSE node,
                  next |-> right.next]
        ELSE [tree |-> LeafTree(el.val), next |-> pos + 1]

ExprTree(expr, do_simplify) == Consume(expr, 1, do_simplify).tree

\* An operator applied to two values, in exact arithmetic (leaves that are
\* fractions or integers under +) or in float arithmetic.  _add is x1 + x2;
\* parallel_impedance sums the admittances 1 / val and returns 1 / admittance.
Operate(operator, is_float, x1, x2) ==
    IF ~is_float THEN Apply([op |-> operator, val |-> Zero], x1, x2)
    ELSE IF operator = "_add" THEN Float(RAdd(x1, x2))
    ELSE LET admittance == Float(RAdd(Float(RDiv(<<1, 1>>, x1)),
                                      Float(RDiv(<<1, 1>>, x2))))
         IN  Float(RDiv(<<1, 1>>, admittance))

\* functools.reduce(operator, vals)
RECURSIVE Reduce(_, _, _)
Reduce(operator, is_float, vals) ==
    IF Len(vals) = 1 THEN vals[1]
    ELSE Operate(operator, is_float,
                 Reduce(operator, is_float, SubSeq(vals, 1, Len(vals) - 1)),
                 vals[Len(vals)])

\* ExprTree.evaluate
RECURSIVE evaluate(_, _)
evaluate(t, is_float) ==
    IF _is_leaf(t) THEN t.operands[1]
    ELSE Reduce(t.operator, is_float,
                [i \in 1..Len(t.operands) |-> evaluate(t.operands[i], is_float)])

\* ExprTree.__str__ as a list of tokens: a leaf is the token the formatter
\* makes of its value, another node is its operands' strings joined by the
\* symbol of its operator, in parentheses.
Token(tok, val) == [tok |-> tok, val |-> val]
sym_rep(operator) == IF operator = "_add" THEN "+" ELSE "||"

RECURSIVE str(_)
RECURSIVE Joined(_, _)
Joined(operands, op_sym) ==
    IF Len(operands) = 1 THEN str(operands[1])
    ELSE str(Head(operands)) \o <<Token(op_sym, Zero)>> \o Joined(Tail(operands), op_sym)
str(t) ==
    IF _is_leaf(t) THEN <<Token("num", t.operands[1])>>
    ELSE <<Token("(", Zero)>> \o Joined(t.operands, sym_rep(t.operator))
             \o <<Token(")", Zero)>>

\* ExprTree(polish_expr, do_simplify = ...)
Construct ==
    /\ pc = "tree_new"
    /\ \E do_simplify \in BOOLEAN :
           /\ tree' = ExprTree(polish_expr, do_simplify)
           /\ pc' = IF do_simplify THEN "tree_simplified" ELSE "tree_raw"
    /\ UNCHANGED <<args, results, results_keyss, num_comps, res, stack, exc, first,
                   topology, series, min_val, max_val, basic_avail_vals, polish_expr,
                   extras>>

\* tree.simplify(), on a tree as constructed or once more on a simplified one.
SimplifyTree ==
    /\ pc \in {"tree_raw", "tree_simplified"}
    /\ tree' = simplify(tree)
    /\ pc' = IF pc = "tree_raw" THEN "tree_simplified" ELSE "tree_resimplified"
    /\ UNCHANGED <<args, results, results_keyss, num_comps, res, stack, exc, first,
                   topology, series, min_val, max_val, basic_avail_vals, polish_expr,
                   extras>>

InitTree ==
    /\ NoCall
    /\ NoCommand
    /\ NoSeries
    /\ NoExtras
    /\ float_mode = FALSE
    /\ polish_expr \in UNION {PolishExprs(n) : n \in 1..MaxLeaves}
    /\ tree = NoTree
    /\ pc = "tree_new"

NextTree == Construct \/ SimplifyTree

SpecTree == InitTree /\ [][NextTree]_vars

\* --------------------------------------------------- properties: ExprTree
\* Two trees have the same operator and the same ordered operand list at
\* every node.
RECURSIVE SameTree(_, _)
SameTree(a, b) ==
    /\ a.operator = b.operator
    /\ Len(a.operands) = Len(b.operands)
    /\ IF _is_leaf(a) THEN a.operands[1] = b.operands[1]
       ELSE \A i \in 1..Len(a.operands) : SameTree(a.operands[i], b.operands[i])

IsVal(el) == ~IsOp(el)

\* The leaf values of a prefix expression, from left to right.
LeavesOf(expr) == SelectSeq(expr, IsVal)

\* A prefix expression of two or more leaves under one operator.
SingleOperator(expr) ==
    /\ Len(expr) > 1
    /\ \A i \in 1..Len(expr) : IsOp(expr[i]) => expr[i] = expr[1]

\* The leaves combined under one operator, grouped to the right:
\* op l1 op l2 ... op l(n-1) ln.
RECURSIVE Chain(_, _)
Chain(op, leaves) ==
    IF Len(leaves) = 1 THEN leaves
    ELSE <<op, Head(leaves)>> \o Chain(op, Tail(leaves))

\* The leaves in ascending order of value.
RECURSIVE SortedByValue(_)
SortedByValue(leaves) ==
    IF leaves = << >> THEN << >>
    ELSE LET init == SortedByValue(SubSeq(leaves, 1, Len(leaves) - 1))
             x == leaves[Len(leaves)]
             k == Cardinality({i \in 1..Len(init) : RLeq(init[i].val, x.val)})
         IN  SubSeq(init, 1, k) \o <<x>> \o SubSeq(init, k + 1, Len(init))

\* The tree that simplify() has not been called on at the root.
RawTree == ExprTree(polish_expr, FALSE)

C17_SimplifyIdempotent ==
    [][(pc = "tree_simplified" /\ pc' = "tree_resimplified") => SameTree(tree', tree)]_vars

\* simplify() was called twice on a tree that the first call changed.
C17_Witness ==
    /\ pc = "tree_resimplified"
    /\ ~SameTree(tree, RawTree)

\* C18 (as claimed): evaluate() returns the same value before and after
\* simplify(), for the float leaves the program works with.
C18_EvaluateUnchanged ==
    [][(pc = "tree_raw" /\ pc' = "tree_simplified")
           => evaluate(tree', TRUE) = evaluate(tree, TRUE)]_vars

\* C18 (amended): in exact arithmetic evaluate() returns the same value
\* before and after simplify().
C18_ExactEvaluateUnchanged ==
    [][(pc = "tree_raw" /\ pc' = "tree_simplified")
           => evaluate(tree', FALSE) = evaluate(tree, FALSE)]_vars

\* A tree over both operators that simplify() has changed.
C18_Witness ==
    /\ pc = "tree_simplified"
    /\ ~SameTree(tree, RawTree)
    /\ Operators(polish_expr) = {"_add", "parallel_impedance"}

\* No node has a non-leaf operand with its own operator, at any depth.
RECURSIVE Flattened(_)
Flattened(t) ==
    _is_leaf(t) \/ \A i \in 1..Len(t.operands) :
                       /\ _is_leaf(t.operands[i]) \/ t.operands[i].operator # t.operator
                       /\ Flattened(t.operands[i])

\* C19: after simplify() no non-leaf node has a non-leaf child with the same
\* operator as itself, at any depth of the tree.
C19_NoSameOperatorChild ==
    pc \in {"tree_simplified", "tree_resimplified"} => Flattened(tree)

\* A simplified tree of an expression whose first three elements are the
\* same operator, nested twice.
C19_Witness ==
    /\ pc = "tree_simplified"
    /\ Len(polish_expr) = 7
    /\ IsOp(polish_expr[3])
    /\ polish_expr[1] = polish_expr[2]
    /\ polish_expr[2] = polish_expr[3]

\* The operands of every node are in ascending order of size.
RECURSIVE SortedBySize(_)
SortedBySize(t) ==
    _is_leaf(t) \/ /\ \A i \in 1..(Len(t.operands) - 1) :
                          _getSize(t.operands[i]) <= _getSize(t.operands[i + 1])
                   /\ \A i \in 1..Len(t.operands) : SortedBySize(t.operands[i])

\* C20: after simplify() no operand of a node has more leaves than an operand
\* that follows it, operands taken over from a flattened child included.
C20_OperandsSortedBySize ==
    pc \in {"tree_simplified", "tree_resimplified"} => SortedBySize(tree)

\* A simplified tree whose root took over the operands of its second operand
\* and had its first operand, of two leaves, moved behind them.
C20_Witness ==
    /\ pc = "tree_simplified"
    /\ Len(tree.operands) = 3
    /\ ~_is_leaf(RawTree.operands[1])
    /\ ~_is_leaf(RawTree.operands[2])
    /\ SameTree(tree.operands[3], RawTree.operands[1])

\* ------------------------------------------------------------------ log.py
MaxLogLevel == 3
MaxLogCalls == 3

\* The value get_log_level is documented to return: the module global.
LastLogLevel == IF log_calls = << >> THEN 0 ELSE log_calls[Len(log_calls)]

\* set_log_level(log_level): assigns the module global _log_level.
SetLogLevel ==
    /\ pc = "log"
    /\ Len(log_calls) < MaxLogCalls
    /\ \E log_level \in 0..MaxLogLevel :
           /\ _log_level' = log_level
           /\ log_calls' = Append(log_calls, log_level)
    /\ UNCHANGED <<args, results, results_keyss, num_comps, res, stack, exc, pc, first,
                   topology, series, min_val, max_val, basic_avail_vals, polish_expr,
                   tree, float_mode, par_vals, impedance, polish_result, tree_value,
                   log_result, caller_list, first_avail_vals>>

\* get_log_level(): the body is "return log_level", and no name log_level
\* exists in the function or in the module (the global is _log_level), so
\* the call raises NameError and returns nothing.
GetLogLevel ==
    /\ pc = "log"
    /\ pc' = "raised"
    /\ exc' = "NameError"
    /\ UNCHANGED <<args, results, results_keyss, num_comps, res, stack, first,
                   topology, series, min_val, max_val, basic_avail_vals, polish_expr,
                   tree, extras>>

InitLog ==
    /\ NoCall
    /\ NoCommand
    /\ NoSeries
    /\ NoExprTree
    /\ NoExtras
    /\ float_mode = FALSE
    /\ pc = "log"

NextLog == SetLogLevel \/ GetLogLevel

SpecLog == InitLog /\ [][NextLog]_vars

\* A call of get_log_level has ended, by a return or by an exception.
GetLogLevelCalled == pc \in {"log_returned", "raised"}

\* C23: get_log_level returns the current logging verbosity: the argument of
\* the most recent set_log_level call, and 0 when set_log_level was never
\* called.  Violated: every call of get_log_level raises NameError.
C23_GetLogLevelReturnsLast ==
    GetLogLevelCalled =>
        /\ exc = ""
        /\ log_result = LastLogLevel

\* ---------------------------------------- get_avail_vals with a list series
MaxListLen == 2
ListMantissas == {10, 22, 47}

\* Lists a caller passes as series: ascending mantissas of one decade.
CallerLists ==
    {l \in UNION {[1..n -> {<<m, 1>> : m \in ListMantissas}] : n \in 1..MaxListLen} :
        StrictlyAscending(l)}

\* A second call get_avail_vals(series, min_val, max_val) with the same list
\* object and the same band, after the first call has returned.
GetAgain ==
    /\ pc = "returned"
    /\ series = "list"
    /\ first_avail_vals = <<NoneVal>>
    /\ first_avail_vals' = avail_vals
    /\ avail_vals' = << >>
    /\ basic_avail_vals' = << >>
    /\ pc' = "series"
    /\ UNCHANGED <<target, max_num_comps, tolerance, num_comps_full_search,
                   num_comps_full_search_lag, results, results_keyss, num_comps,
                   res, stack, exc, first, topology, series, min_val, max_val,
                   polish_expr, tree, float_mode, par_vals, impedance, polish_result,
                   tree_value, _log_level, log_calls, log_result, caller_list>>

InitCatalogueList ==
    /\ NoCall
    /\ NoCommand
    /\ NoExprTree
    /\ NoParallel
    /\ NoEval
    /\ NoLog
    /\ float_mode = FALSE
    /\ series = "list"
    /\ caller_list \in CallerLists
    /\ first_avail_vals = <<NoneVal>>
    /\ min_val \in BandVals
    /\ max_val \in BandVals
    /\ basic_avail_vals = << >>
    /\ pc = "series"

NextCatalogueList == GetSeries \/ GetBand \/ GetAgain

SpecCatalogueList == InitCatalogueList /\ [][NextCatalogueList]_vars

\* C30: get_avail_vals leaves a caller-supplied mantissa list unchanged (the
\* same elements in the same order after the call), so a second call with
\* the same list object and the same band returns an equal catalogue.
\* Violated: the call reverses the caller's list in place.
C30_CallerListUnchanged ==
    [][/\ caller_list' = caller_list
       /\ (pc' = "returned" /\ first_avail_vals' # <<NoneVal>>)
              => avail_vals' = first_avail_vals']_vars

\* ------------------------------------------------------ parallel_impedance
MaxParVal == 31

\* 1 / val in float arithmetic, for val # 0 (1 / inf is 0.0).
Reciprocal(val) == IF val = Inf THEN Zero ELSE Float(RDiv(<<1, 1>>, val))

\* ParallelImpedance summing the impedances instead of the admittances.
ParallelImpedance_SumOfVals(vals) ==
    LET Sum[n \in 0..Len(vals)] ==
            IF n = 0 THEN Zero
            ELSE IF vals[n] = Inf \/ Sum[n - 1] = Inf THEN Inf
            ELSE Float(RAdd(Sum[n - 1], vals[n]))
    IN  Sum[Len(vals)]

\* parallel_impedance(*vals) on floats: the admittances 1 / val are summed
\* from 0 in the order of the arguments; a zero among them raises
\* ZeroDivisionError, which returns 0; the result is 1 / admittance, and inf
\* when the admittance is 0.
ParallelImpedance(vals) ==
    LET admittance[n \in 0..Len(vals)] ==
            IF n = 0 THEN Zero
            ELSE Float(RAdd(admittance[n - 1], Reciprocal(vals[n])))
    IN  IF \E n \in 1..Len(vals) : vals[n] = Zero THEN Zero
        ELSE IF admittance[Len(vals)] = Zero THEN Inf
        ELSE Float(RDiv(<<1, 1>>, admittance[Len(vals)]))

\* The arguments of a call: 0.0, inf and the floats nearest to the integers
\* up to MaxParVal.
ParVals == {Zero, Inf} \cup {Float(<<a, 1>>) : a \in 1..MaxParVal}

\* parallel_impedance(*par_vals)
ParallelCall ==
    /\ pc = "parallel"
    /\ impedance' = ParallelImpedance(par_vals)
    /\ pc' = "parallel_returned"
    /\ UNCHANGED <<args, results, results_keyss, num_comps, res, stack, exc, first,
                   topology, series, min_val, max_val, basic_avail_vals, polish_expr,
                   tree, float_mode, par_vals, polish_result, tree_value,
                   _log_level, log_calls, log_result, caller_list, first_avail_vals>>

InitParallel ==
    /\ NoCall
    /\ NoCommand
    /\ NoSeries
    /\ NoExprTree
    /\ NoEval
    /\ NoLog
    /\ NoList
    /\ float_mode = TRUE
    /\ par_vals \in [1..1 -> ParVals] \cup [1..2 -> ParVals]
    /\ impedance = NoneVal
    /\ pc = "parallel"

NextParallel == ParallelCall

SpecParallel == InitParallel /\ [][NextParallel]_vars

\* A positive finite number.
PositiveFinite(a) == a # Inf /\ a # NoneVal /\ Positive(a)

\* x equals y up to the rounding of two float operations: with the unit
\* roundoff u = 2^-MantissaBits, |x - y| <= 3 * u * y.
CloseTo(x, y) ==
    /\ x # Inf
    /\ RLeq(RAbs(RSub(x, y)), RMul(<<3, Pow2(MantissaBits)>>, y))

\* C21: for every positive finite a, parallel_impedance(a, 0) = 0,
\* parallel_impedance(a, inf) = a and parallel_impedance(a, a) = a / 2, and
\* parallel_impedance with one argument returns that argument.  Violated:
\* the result is 1 / (1 / a) in floats, which is not always a.
C21_ParallelLaws ==
    (pc = "parallel_returned" /\ PositiveFinite(par_vals[1])) =>
        LET a == par_vals[1]
        IN  /\ par_vals = <<a, Zero>> => impedance = Zero
            /\ par_vals = <<a, Inf>> => impedance = a
            /\ par_vals = <<a, a>> => impedance = RDiv(a, <<2, 1>>)
            /\ par_vals = <<a>> => impedance = a

\* C21 (amended): parallel_impedance(a, 0) is exactly 0; the results for
\* (a, inf) and (a) are a, and the result for (a, a) is a / 2, up to the
\* rounding of the two divisions.
C21_ParallelLawsRounded ==
    (pc = "parallel_returned" /\ PositiveFinite(par_vals[1])) =>
        LET a == par_vals[1]
        IN  /\ par_vals = <<a, Zero>> => impedance = Zero
            /\ par_vals = <<a, Inf>> => CloseTo(impedance, a)
            /\ par_vals = <<a, a>> => CloseTo(impedance, RDiv(a, <<2, 1>>))
            /\ par_vals = <<a>> => CloseTo(impedance, a)

\* C21 witness: a call with one argument has returned a value that is not
\* the argument.
C21_Witness ==
    /\ pc = "parallel_returned"
    /\ Len(par_vals) = 1
    /\ PositiveFinite(par_vals[1])
    /\ impedance # par_vals[1]

\* ------------------------------------------- _polish_eval and evaluate
\* PolishStack applying _add for every operator.
RECURSIVE PolishStack_AlwaysAdd(_, _, _)
PolishStack_AlwaysAdd(expr, stck, is_float) ==
    IF expr = << >> THEN stck
    ELSE LET el == expr[Len(expr)]
             rest == SubSeq(expr, 1, Len(expr) - 1)
         IN  IF IsOp(el)
             THEN PolishStack_AlwaysAdd(
                      Append(rest, Leaf(Operate("_add", is_float, stck[Len(stck)],
                                                stck[Len(stck) - 1]))),
                      SubSeq(stck, 1, Len(stck) - 2), is_float)
             ELSE PolishStack_AlwaysAdd(rest, Append(stck, el.val), is_float)

\* The loop of _polish_eval on numbers that are floats or exact: the last
\* element is popped; a value is pushed on the stack, an operator is applied
\* to the two values popped from the stack and the result is put back at the
\* end of the expression.
RECURSIVE PolishStack(_, _, _)
PolishStack(expr, stck, is_float) ==
    IF expr = << >> THEN stck
    ELSE LET el == expr[Len(expr)]
             rest == SubSeq(expr, 1, Len(expr) - 1)
         IN  IF IsOp(el)
             THEN PolishStack(
                      Append(rest, Leaf(Operate(el.op, is_float, stck[Len(stck)],
                                                stck[Len(stck) - 1]))),
                      SubSeq(stck, 1, Len(stck) - 2), is_float)
             ELSE PolishStack(rest, Append(stck, el.val), is_float)

\* _polish_eval(expr): the stack, reversed.
_polish_eval(expr, is_float) == Reverse(PolishStack(expr, << >>, is_float))

\* _polish_eval(polish_expr) and ExprTree(polish_expr).evaluate()
Evaluate ==
    /\ pc = "eval"
    /\ polish_result' = _polish_eval(polish_expr, float_mode)
    /\ tree' = ExprTree(polish_expr, TRUE)
    /\ tree_value' = evaluate(tree', float_mode)
    /\ pc' = "evaluated"
    /\ UNCHANGED <<args, results, results_keyss, num_comps, res, stack, exc, first,
                   topology, series, min_val, max_val, basic_avail_vals, polish_expr,
                   float_mode, par_vals, impedance, _log_level, log_calls, log_result,
                   caller_list, first_avail_vals>>

InitEval ==
    /\ NoCall
    /\ NoCommand
    /\ NoSeries
    /\ NoParallel
    /\ NoEval
    /\ NoLog
    /\ NoList
    /\ float_mode \in BOOLEAN
    /\ polish_expr \in UNION {PolishExprs(n) : n \in 1..MaxLeaves}
    /\ tree = NoTree
    /\ pc = "eval"

NextEval == Evaluate

SpecEval == InitEval /\ [][NextEval]_vars

\* C22: for every well-formed prefix expression over _add and
\* parallel_impedance, _polish_eval returns a list of exactly one element,
\* and that element equals ExprTree(expr).evaluate().  Violated with float
\* leaves: the tree is flattened and sorted, which changes the order of the
\* roundings.
C22_PolishEvalEqualsTree ==
    pc = "evaluated" => polish_result = <<tree_value>>

\* C22 (amended): _polish_eval returns a list of exactly one element; with
\* exact leaves that element equals ExprTree(expr).evaluate().
C22_ExactPolishEvalEqualsTree ==
    pc = "evaluated" =>
        /\ Len(polish_result) = 1
        /\ ~float_mode => polish_result = <<tree_value>>

\* C22 witness: an exact expression with both operators whose tree was
\* flattened has been evaluated both ways.
C22_Witness ==
    /\ pc = "evaluated"
    /\ ~float_mode
    /\ Len(tree.operands) >= 3
    /\ \E i \in 1..Len(tree.operands) : ~_is_leaf(tree.operands[i])
    /\ polish_result = <<tree_value>>

\* ----------------------------------------------- properties of the helper
\* The distance of v from the sub-target of frame f.
FrameErr(f, v) == RAbs(RSub(f.target, v))

\* C25: the memo probe of a helper call with budget b examines every level
\* from 1 to b: the value returned is at least as close to the sub-target as
\* every memo entry stored at levels 1..b when the call started.  Checked on
\* the calls that return from the probe (the memo is then still the one the
\* call started with).  Violated: a call with b <= num_comps_fully_searched
\* returns after level 1.
C25_ProbeExaminesAllLevels ==
    (ValidCall /\ pc = "helper" /\ stack # << >> /\ Top.phase = "return") =>
        \A k \in 1..Min(Top.num_comps, Len(results_keyss)) :
            \A j \in 1..Len(results_keyss[k]) :
                RLeq(FrameErr(Top, Top.best_val), FrameErr(Top, results_keyss[k][j]))

\* ------------------------------------- make_resistance on floats and exact
MaxFloatVal == 6
MaxFloatTargetNum == 4

\* Catalogues of the calls below: strictly ascending lists of at most
\* MaxCatLen integer values up to MaxFloatVal.
FloatCatalogues ==
    {l \in UNION {[1..n -> {<<v, 1>> : v \in 1..MaxFloatVal}] : n \in 1..MaxCatLen} :
        StrictlyAscending(l)}

\* A call of make_resistance whose numbers are floats (float_mode) or
\* Fractions: a float argument is the float nearest to the number written.
InitFloat ==
    /\ NoCommand
    /\ NoSeries
    /\ NoExprTree
    /\ NoExtras
    /\ float_mode \in BOOLEAN
    /\ target \in {Fl(Norm(n, TargetDen)) : n \in 1..MaxFloatTargetNum}
    /\ max_num_comps \in 1..MaxIter
    /\ tolerance \in {Fl(t) : t \in Tolerances}
    /\ avail_vals \in FloatCatalogues
    /\ num_comps_full_search \in 0..MaxFullSearch
    /\ num_comps_full_search_lag \in 0..MaxLag
    /\ results = << >>
    /\ results_keyss = << >>
    /\ num_comps = 0
    /\ res = NoRes
    /\ stack = << >>
    /\ exc = ""
    /\ pc = "seed"
    /\ first = NoRes

SpecFloat == InitFloat /\ [][Next]_vars

\* C26: in the extension step of the helper, a catalogue value v equal to
\* the current sub-target makes the helper return the single-leaf expression
\* [v] with zero error; the step never computes v * t / (v - t) with v = t,
\* so no call ends in a division by zero.  Violated on floats: the code has
\* no such return, and a rounded sub-target can be a catalogue value.
C26_NoDivisionByZero ==
    /\ exc # "ZeroDivisionError"
    /\ (pc = "helper" /\ stack # << >> /\ Top.phase = "extend"
            /\ \E i \in 1..Len(avail_vals) : avail_vals[i] = Top.target)
       => /\ Top.best_error = Zero
          /\ Top.best_expr = <<Leaf(Top.target)>>
          /\ Top.i > Len(avail_vals)

\* The levels whose key list holds v.
LevelsOf(v) ==
    {k \in 1..Len(results_keyss) : \E j \in 1..Len(results_keyss[k]) : results_keyss[k][j] = v}

\* The number of occurrences of v in the key lists.
Occurrences(v) ==
    Cardinality({kj \in UNION {{<<k, j>> : j \in 1..Len(results_keyss[k])}
                               : k \in 1..Len(results_keyss)} :
                    results_keyss[kj[1]][kj[2]] = v})

\* The value of a stored expression as _polish_eval computes it from the
\* numbers of the call.
StoredValue(expr) == _polish_eval(expr, float_mode)[1]

\* The memo is consistent at key v: v is in exactly one level list, and the
\* stored expression has that many leaves, all from the catalogue, and
\* evaluates to v.
MemoConsistentAt(v) ==
    /\ Occurrences(v) = 1
    /\ \A k \in LevelsOf(v) :
           /\ LeafCount(results[v]) = k
           /\ Len(results[v]) = 2 * k - 1
    /\ \A i \in 1..Len(results[v]) :
           IsVal(results[v][i]) => results[v][i].val \in Range(avail_vals)
    /\ StoredValue(results[v]) = v

\* C27: at every point of a make_resistance call with a positive catalogue,
\* each key v of the memo occurs in exactly one level list results_keyss[k-1],
\* and the expression stored for v has exactly k leaves, all of them
\* catalogue values, and evaluates to v.  Violated on floats: the key of a
\* parallel extension is a * b / (a + b), the expression evaluates to
\* 1 / (1 / a + 1 / b).
C27_MemoConsistent == \A v \in DOMAIN results : MemoConsistentAt(v)

\* C27 (amended): the same, with "evaluates to v" for exact numbers only.
C27_ExactMemoConsistent ==
    \A v \in DOMAIN results :
        /\ Occurrences(v) = 1
        /\ \A k \in LevelsOf(v) :
               /\ LeafCount(results[v]) = k
               /\ Len(results[v]) = 2 * k - 1
        /\ \A i \in 1..Len(results[v]) :
               IsVal(results[v][i]) => results[v][i].val \in Range(avail_vals)
        /\ ~float_mode => StoredValue(results[v]) = v

\* C27 witness: an exact call whose memo holds a three-component entry with
\* both operators, stored by the helper.
C27_Witness ==
    /\ ~float_mode
    /\ num_comps_full_search = 0
    /\ \E v \in DOMAIN results :
           /\ LevelsOf(v) = {3}
           /\ Operators(results[v]) = {"_add", "parallel_impedance"}

\* Every recursive call has a budget one smaller than its caller's, and a
\* call with budget 1 makes no recursive call.
BudgetsDecrease ==
    /\ \A i \in 1..(Len(stack) - 1) : stack[i + 1].num_comps = stack[i].num_comps - 1
    /\ \A i \in 1..Len(stack) : stack[i].num_comps = 1 => stack[i].phase = "return"

\* The call has not ended and its next step is enabled: the seed, the next
\* iteration of the outer loop, a recursive call or a return of the helper.
CanStep ==
    \/ pc = "seed"
    \/ pc = "loop" /\ (max_num_comps <= 0 \/ RangeHasNext(num_comps))
    \/ /\ pc = "helper"
       /\ stack # << >>
       /\ \/ Top.phase = "extend" /\ Top.i <= Len(avail_vals)
          \/ Returning(Top)

\* C29: termination: every recursive call of the helper is made with a
\* budget exactly one smaller than its caller's and a call with budget 1
\* makes no recursive call, so for every finite max_num_comps >= 1, positive
\* target and non-empty finite catalogue, make_resistance eventually
\* returns: a call that has not returned can take a step.  Violated on
\* floats: the call can end in ZeroDivisionError instead of returning.
C29_Terminates ==
    (ValidCall /\ max_num_comps >= 1) =>
        /\ BudgetsDecrease
        /\ pc = "done" \/ CanStep

\* A recursive call is about to return to its caller (HelperReturn is the
\* next step), which then offers a new expression to the memo.
OfferPending == pc = "helper" /\ Len(stack) >= 2 /\ Returning(Top)

\* The expression the caller builds from the recursive result, and its value.
OfferedExpr ==
    LET f == stack[Len(stack) - 1]
        val == avail_vals[f.i]
    IN  <<ExtOp(f.target, val), Leaf(val)>> \o Top.best_expr
OfferedVal ==
    LET f == stack[Len(stack) - 1]
        val == avail_vals[f.i]
    IN  Combine(ExtOp(f.target, val), val, Top.best_val)

\* The full search of the next iteration of the outer loop runs at this level
\* (0: no full search).
FullSearchLevel ==
    LET fully == num_comps + 1 - num_comps_full_search_lag
    IN  IF pc = "loop" /\ 1 < fully /\ fully <= num_comps_full_search THEN fully ELSE 0

\* The values the full search offers at its level: val + old_val and
\* val || old_val for every catalogue value and every key one level below.
FullSearchOffers ==
    IF FullSearchLevel = 0 THEN {}
    ELSE UNION {{FAdd(avail_vals[i], old_val),
                 FDiv(FMul(avail_vals[i], old_val), FAdd(avail_vals[i], old_val))}
                : i \in 1..Len(avail_vals),
                  old_val \in Range(results_keyss[FullSearchLevel - 1])}

\* Calls of make_resistance with four components: exact numbers, the
\* catalogues of two values up to MaxFloatVal, no tolerance.
MaxDeepIter == 4

InitDeep ==
    /\ NoCommand
    /\ NoSeries
    /\ NoExprTree
    /\ NoExtras
    /\ float_mode = FALSE
    /\ target \in {Norm(n, TargetDen) : n \in 1..MaxTargetNum}
    /\ max_num_comps = MaxDeepIter
    /\ tolerance = Zero
    /\ avail_vals \in {l \in FloatCatalogues : Len(l) = 2}
    /\ num_comps_full_search \in 0..1
    /\ num_comps_full_search_lag \in 0..1
    /\ results = << >>
    /\ results_keyss = << >>
    /\ num_comps = 0
    /\ res = NoRes
    /\ stack = << >>
    /\ exc = ""
    /\ pc = "seed"
    /\ first = NoRes

SpecDeep == InitDeep /\ [][Next]_vars

\* C24: after any sequence of memo insertions during one make_resistance
\* call, the expression stored for a value has the smallest component count
\* among all expressions offered for that value: after an offer, by the
\* helper or by the full search, the stored expression has no more leaves
\* than the offered one.  Violated: an expression is stored only when its
\* value is not yet a key, and is never replaced.
C24_CheapestStored ==
    [][/\ OfferPending
          => LeafCount(results'[OfferedVal]) <= LeafCount(OfferedExpr)
       /\ \A v \in FullSearchOffers :
              LeafCount(results'[v]) <= FullSearchLevel]_vars

\* The top frame has just finished its probe: no extension has been built.
JustProbed ==
    /\ pc = "helper"
    /\ stack # << >>
    /\ Top.phase = "return" \/ (Top.phase = "extend" /\ Top.i = 1)
    /\ Top.best_val # NoneVal

\* After the probe, every memo entry at a level below the level of the best
\* candidate is strictly farther from the sub-target: on equal errors the
\* entry at the lower level was kept.
LowerLevelWins ==
    JustProbed =>
        \A k \in LevelsOf(Top.best_val) : \A l \in 1..(k - 1) :
            \A j \in 1..Len(results_keyss[l]) :
                RLess(Top.best_error, FrameErr(Top, results_keyss[l][j]))

\* C28: among candidates with equal absolute error the helper keeps the
\* first one encountered: a memo entry at a lower level wins over an entry at
\* a higher level, and the candidate a call holds (a memo entry found by the
\* probe, or an earlier extension) wins over a newly built series or
\* parallel extension with the same error; the candidate changes only for a
\* strictly smaller error.
C28_FirstEncounteredWins ==
    [][/\ LowerLevelWins'
       /\ OfferPending =>
              LET f == stack[Len(stack) - 1]
                  g == stack'[Len(stack')]
              IN  /\ FrameErr(f, OfferedVal) = f.best_error
                         => (g.best_expr = f.best_expr /\ g.best_val = f.best_val)
                  /\ g.best_expr # f.best_expr
                         => (f.best_error = Inf \/ RLess(g.best_error, f.best_error))]_vars

\* C28 witness: a recursive call is returning with a result whose extension
\* has exactly the error of the memo entry the caller found by its probe,
\* and is a different network.
C28_Witness ==
    /\ OfferPending
    /\ ValidCall
    /\ LET f == stack[Len(stack) - 1]
       IN  /\ FrameErr(f, OfferedVal) = f.best_error
           /\ OfferedExpr # f.best_expr
           /\ OfferedVal # f.best_val
           /\ f.best_val \in DOMAIN results
           /\ results[f.best_val] = f.best_expr
====
